---- MODULE Spec2Model ----
(***************************************************************************)
(* The virtual brokerage engine of trading-sight (src/src/core/            *)
(* BrokerEngine.ts) and its replay clock (ReplayController, src/unnamed/   *)
(* part_003) as a state machine.                                           *)
(*                                                                         *)
(* Units.  JavaScript numbers are modelled as integers in fixed units:     *)
(*   price  : half points      (200 = 100.0, 199 = 99.5, 202 = 101.0)      *)
(*   size   : hundredths of lot (10 = 0.1 lot)                             *)
(*   money  : price unit * size unit = 0.005 (2000000 = 10000.00)          *)
(* A value that may be undefined or non-finite is a tagged record, see     *)
(* Num, NaN and Undefined.                                                 *)
(*   time   : 10 ms            (100 = 1000 ms, 1 = 10 ms)                  *)
(***************************************************************************)
EXTENDS Integers, Sequences, FiniteSets, TLC

VARIABLES
    config,          \* BrokerEngine.config, after the constructor merged the defaults
    positions,       \* BrokerEngine.positions: every trade created since construction/reset
    balance,         \* BrokerEngine.balance
    equity,          \* BrokerEngine.equity
    currentPrice,    \* BrokerEngine.currentPrice: the price of the last update()
    tradeCounter,    \* BrokerEngine.tradeCounter
    eventCallbacks,  \* BrokerEngine.eventCallbacks: the registered callbacks, in order
    events,          \* history: the emitEvent calls since construction/reset; the
                     \* record keeps what a callback can observe of the engine then
    deliveries,      \* history: the calls of callbacks since construction/reset, in the
                     \* order in which the callbacks were entered
    last,            \* history: the last public call and what it returned
    replay,          \* ReplayController: data.length, state, animationFrameId and the
                     \* time since lastUpdate
    frames,          \* the animation frames requested and neither run nor cancelled
    ticks            \* history: the arguments of the onTickChange calls of the last step

vars == <<config, positions, balance, equity, currentPrice, tradeCounter, eventCallbacks,
          events, deliveries, last, replay, frames, ticks>>

-----------------------------------------------------------------------------
(* JavaScript values *)

Num(v) == [tag |-> "num", v |-> v]
NaN == [tag |-> "nan", v |-> 0]
Undefined == [tag |-> "undefined", v |-> 0]

isFinite(x) == x.tag = "num"

Abs(x) == IF x < 0 THEN -x ELSE x

Min(a, b) == IF a <= b THEN a ELSE b

\* n / d for d > 0, rounded away from zero: like a floating-point quotient, the
\* result is zero only when n is zero and keeps the sign of n.
DivAway(n, d) ==
    IF n >= 0 THEN (n + d - 1) \div d ELSE -(((-n) + d - 1) \div d)

-----------------------------------------------------------------------------
(* Program constants, in model units *)

DefaultRiskPerTradePct == 1

DefaultLotSize == 10

DefaultMinSLDistance == 20

DefaultMaxOpenPositions == 10

InitialBalance == 2000000

(* Bounds of the model *)

MaxTrades == 2

MaxCallbacks == 2

MaxBusTrades == 1

\* Inputs the operations are called with
Types == {"buy", "sell"}

\* The orders placeOrder is called with, <<type, price, sl, tp, size>>: every side of
\* stop and target around the entry 100.0, then one flaw at a time.
OrderInputs ==
    {<<type, Num(200), sl, tp, Undefined>> :
        type \in Types, sl \in {Num(199), Num(201)}, tp \in {Num(199), Num(202)}}
    \cup {<<"buy", Num(200), Num(199), Num(202), size>> : size \in {Num(10), Num(0), NaN}}
    \cup {<<"buy", price, Num(199), Num(202), Undefined>> : price \in {NaN, Num(0)}}
    \cup {<<"buy", Num(200), sl, Num(202), Undefined>> : sl \in {NaN, Num(0), Num(200)}}
    \cup {<<"buy", Num(200), Num(199), tp, Undefined>> : tp \in {NaN, Num(0), Num(200)}}

UpdatePrices == {199, 201, 202}

ExitInputs == {Undefined, Num(201)}

TradeIds == 0..MaxTrades

\* The options the engine is constructed with: <<minSLDistance, maxOpenPositions>>
ConfigInputs == {<<Undefined, Undefined>>, <<Num(1), Num(0)>>, <<Num(1), Num(1)>>}

-----------------------------------------------------------------------------
(* Construction *)

\* { riskPerTrade: 0.01, defaultLotSize: 0.1, minSLDistance: 10,
\*   maxOpenPositions: 10, ...config }
constructor(minSL, maxOpen) ==
    [ initialBalance   |-> InitialBalance,
      riskPerTradePct  |-> DefaultRiskPerTradePct,
      defaultLotSize   |-> DefaultLotSize,
      minSLDistance    |-> IF minSL.tag = "undefined" THEN DefaultMinSLDistance ELSE minSL.v,
      maxOpenPositions |-> IF maxOpen.tag = "undefined" THEN DefaultMaxOpenPositions ELSE maxOpen.v ]

Ret(kind, id) == [kind |-> kind, id |-> id]

Void == Ret("void", 0)

Null == Ret("null", 0)

(* The replay clock: constants, bounds and inputs *)

\* state.playbackSpeed of a new controller: 1000 ms
DefaultPlaybackSpeed == 100

\* setSpeed: Math.max(10, speed)
MinPlaybackSpeed == 1

\* animationFrameId = null
NoFrame == 0

\* The largest number of samples of a data set
MaxSamples == 3

\* The animation frames that may be pending at a time
MaxFrames == 2

\* The time since lastUpdate is followed up to this value
ElapsedCap == 100

FrameIds == 1..MaxFrames

\* data.length of the data sets given to the controller: the short ones, and one
\* of a hundred samples
DataLengths == (1..MaxSamples) \cup {100}

\* seek and setCurrentTickIndex targets: below, inside and beyond every data set
IndexInputs == {-5, 0, 1, MaxSamples - 1, 1000}

\* setProgress arguments, in percent (50 = 0.5)
ProgressInputs == {-50, 0, 50, 100, 150}

Directions == {"forward", "backward"}

\* setSpeed arguments: below the minimum, and half a second
SpeedInputs == {0, 50}

\* The time that passes between two steps: half a second
TimeSteps == {50}

Max(a, b) == IF a >= b THEN a ELSE b

\* The functions a client gives as onTickChange: one that shows the sample and
\* returns, and one that restarts playback by calling togglePlayPause() twice
TickCallbacks == {"observer", "restarter"}

\* constructor(data, initialState = {}, onTickChange): the controller over n
\* samples
ReplayController(n) ==
    [ onTickChange     |-> "observer",
      dataLength       |-> n,
      currentTickIndex |-> 0,
      playbackSpeed    |-> DefaultPlaybackSpeed,
      isPaused         |-> TRUE,
      animationFrameId |-> NoFrame,
      sinceLastUpdate  |-> ElapsedCap ]

Init ==
    /\ \E options \in ConfigInputs : config = constructor(options[1], options[2])
    /\ positions = <<>>
    /\ balance = InitialBalance
    /\ equity = InitialBalance
    /\ currentPrice = 0
    /\ tradeCounter = 0
    /\ eventCallbacks = <<>>
    /\ events = <<>>
    /\ deliveries = <<>>
    /\ last = [op |-> "constructor", ret |-> Void]
    /\ replay = ReplayController(MaxSamples)
    /\ frames = {}
    /\ ticks = <<>>

-----------------------------------------------------------------------------
(* The engine's methods, as functions of the engine's fields.  An engine e   *)
(* is the record of the fields a call may change:                            *)
(*   [positions, balance, equity, currentPrice, tradeCounter,                *)
(*    eventCallbacks, events, deliveries]                                    *)

Engine ==
    [ positions    |-> positions,
      balance      |-> balance,
      equity       |-> equity,
      currentPrice |-> currentPrice,
      tradeCounter   |-> tradeCounter,
      eventCallbacks |-> eventCallbacks,
      events         |-> events,
      deliveries     |-> deliveries ]

Result(e, ret) == [e |-> e, ret |-> ret]

getOpenPositions(pos) == SelectSeq(pos, LAMBDA t : t.status = "open")

getClosedPositions(pos) == SelectSeq(pos, LAMBDA t : t.status # "open")

RECURSIVE SumUnrealizedPnL(_)
SumUnrealizedPnL(trades) ==
    IF trades = <<>> THEN 0
    ELSE Head(trades).unrealizedPnL + SumUnrealizedPnL(Tail(trades))

\* the profit of a short is computed like that of a long
calculatePnLAsLong(type, entryPrice, exitPrice, size) == (exitPrice - entryPrice) * size

calculatePnL(type, entryPrice, exitPrice, size) ==
    IF type = "buy" THEN (exitPrice - entryPrice) * size
    ELSE (entryPrice - exitPrice) * size

\* equity summed over every trade, closed ones included
updateEquityOverAllTrades(e) ==
    [e EXCEPT !.equity = e.balance + SumUnrealizedPnL(e.positions)]

updateEquity(e) ==
    [e EXCEPT !.equity = e.balance + SumUnrealizedPnL(getOpenPositions(e.positions))]

(* The event bus *)

\* The functions a client registers with onTradeEvent: one that reads the accessors
\* and returns (useBroker's handleTradeEvent), one that raises an error, and one that
\* closes the trade it is told was opened.
Callbacks == {"observer", "thrower", "closer"}

\* A function that, told a trade was closed, closes every open trade (an account
\* liquidated at its first exit), next to one that only reads
LiquidatingCallbacks == {"observer", "liquidator"}

throws(callback) == callback = "thrower"

RECURSIVE closeTrade(_, _, _)

RECURSIVE closeAllPositions(_)

\* callback(event): what the call does to the engine before it returns or throws
runCallback(e, callback, event) ==
    IF callback = "closer" /\ event.type = "TRADE_OPENED"
    THEN closeTrade(e, event.trade.id, Undefined).e
    ELSE IF callback = "liquidator" /\ event.type = "TRADE_CLOSED"
    THEN closeAllPositions(e)
    ELSE e

\* The record of one call of a callback with the k-th published event.
delivery(callback, k, outcome) == [to |-> callback, event |-> k, outcome |-> outcome]

\* no try/catch: the first error ends the forEach and leaves emitEvent
RECURSIVE deliverEachUncaught(_, _, _)
deliverEachUncaught(e, callbacks, k) ==
    IF callbacks = <<>> THEN e
    ELSE LET callback == Head(callbacks)
         IN  IF throws(callback)
             THEN [e EXCEPT !.deliveries = Append(@, delivery(callback, k, "uncaught"))]
             ELSE deliverEachUncaught(
                      runCallback([e EXCEPT !.deliveries =
                                       Append(@, delivery(callback, k, "returned"))],
                                  callback, e.events[k]),
                      Tail(callbacks), k)

\* this.eventCallbacks.forEach(callback => { try { callback(event) } catch ... }):
\* an error a callback throws is caught and logged, and the next callback is called
RECURSIVE deliverEach(_, _, _)
deliverEach(e, callbacks, k) ==
    IF callbacks = <<>> THEN e
    ELSE LET callback == Head(callbacks)
             outcome == IF throws(callback) THEN "caught" ELSE "returned"
         IN  deliverEach(
                 runCallback([e EXCEPT !.deliveries =
                                  Append(@, delivery(callback, k, outcome))],
                             callback, e.events[k]),
                 Tail(callbacks), k)

\* The event carries a reference to the engine's trade: the log keeps its id and the
\* status it has then, the callbacks registered then, and what a callback finds
\* when it reads the accessors: whether equity is balance plus the open trades'
\* unrealizedPnL (equityOk), and whether every open trade's unrealizedPnL is its
\* profit at currentPrice (repriced).
emitEvent(e, type, trade) ==
    LET event ==
            [ type        |-> type,
              trade       |-> [id |-> trade.id, status |-> trade.status],
              subscribers |-> e.eventCallbacks,
              equityOk    |-> e.equity = e.balance
                                  + SumUnrealizedPnL(getOpenPositions(e.positions)),
              repriced    |-> \A i \in DOMAIN e.positions :
                                e.positions[i].status = "open" =>
                                    e.positions[i].unrealizedPnL =
                                        calculatePnL(e.positions[i].type,
                                                     e.positions[i].entryPrice,
                                                     e.currentPrice, e.positions[i].size) ]
        published == [e EXCEPT !.events = Append(@, event)]
    IN  deliverEach(published, e.eventCallbacks, Len(published.events))

\* The trade an event carries: { type, trade, timestamp } holds the engine's own
\* trade object, so what a subscriber reads from it later is the engine's trade of
\* that id as it is then.
carriedTrade(pos, event) ==
    LET i == CHOOSE k \in DOMAIN pos : pos[k].id = event.trade.id
    IN  pos[i]

(* validateOrder *)

priceValid(x) == isFinite(x) /\ x.v > 0

\* only the stop is checked against the entry
slPlacementValid(type, price, sl, tp) ==
    IF type = "buy" THEN ~(sl >= price) ELSE ~(sl <= price)

slTpPlacementValid(type, price, sl, tp) ==
    IF type = "buy" THEN ~(sl >= price) /\ ~(tp <= price)
    ELSE ~(sl <= price) /\ ~(tp >= price)

\* the distance between entry and stop is not checked
slDistanceUnchecked(price, sl) == TRUE

slDistanceValid(price, sl) ==
    ~(Abs(price - sl) < (IF config.minSLDistance = 0 THEN 0 ELSE config.minSLDistance))

sizeValid(size) ==
    size.tag # "undefined" => (isFinite(size) /\ size.v > 0)

validateOrder(type, price, sl, tp, size) ==
    /\ priceValid(price)
    /\ priceValid(sl)
    /\ priceValid(tp)
    /\ slTpPlacementValid(type, price.v, sl.v, tp.v)
    /\ slDistanceValid(price.v, sl.v)
    /\ sizeValid(size)

\* openPositions >= (this.config.maxOpenPositions || Infinity)
positionLimitReached(pos) ==
    IF config.maxOpenPositions = 0 THEN FALSE
    ELSE Len(getOpenPositions(pos)) >= config.maxOpenPositions

\* the risk is taken from the initial balance, not from the balance at the call
calculatePositionSizeOfInitialBalance(e, type, entryPrice, sl) ==
    Min(DivAway(config.initialBalance * config.riskPerTradePct,
                100 * Abs(entryPrice - sl)),
        config.defaultLotSize)

calculatePositionSize(e, type, entryPrice, sl) ==
    LET riskPerTradePct == IF config.riskPerTradePct = 0 THEN DefaultRiskPerTradePct
                           ELSE config.riskPerTradePct
        slDistance == Abs(entryPrice - sl)
        positionSize == DivAway(e.balance * riskPerTradePct, 100 * slDistance)
    IN  Min(positionSize,
            IF config.defaultLotSize = 0 THEN DefaultLotSize ELSE config.defaultLotSize)

\* the id is consumed before the order is checked
rejectOrderAfterCounting(e) == Result([e EXCEPT !.tradeCounter = @ + 1], Null)

\* return null, before anything was changed
rejectOrder(e) == Result(e, Null)

\* the new trade is announced as closed
openedEventTypeClosed == "TRADE_CLOSED"

\* type: TradeEventType.TRADE_OPENED
openedEventType == "TRADE_OPENED"

placeOrder(e, type, price, sl, tp, size) ==
    IF ~validateOrder(type, price, sl, tp, size) THEN rejectOrder(e)
    ELSE IF positionLimitReached(e.positions) THEN rejectOrder(e)
    ELSE
        LET positionSize == IF size.tag = "num" /\ size.v # 0 THEN size.v
                            ELSE calculatePositionSize(e, type, price.v, sl.v)
            trade == [ id            |-> e.tradeCounter + 1,
                       type          |-> type,
                       entryPrice    |-> price.v,
                       sl            |-> sl.v,
                       tp            |-> tp.v,
                       size          |-> positionSize,
                       status        |-> "open",
                       unrealizedPnL |-> 0,
                       exitPrice     |-> Undefined,
                       realizedPnL   |-> Undefined ]
            e1 == [e EXCEPT !.tradeCounter = @ + 1,
                            !.positions = Append(@, trade)]
        IN  Result(emitEvent(updateEquity(e1), openedEventType, trade),
                   Ret("trade", trade.id))

(* closeTrade *)

\* a closed trade keeps the status open
closedStatusStillOpen == "open"

\* trade.status = 'stopped'
closedStatus == "stopped"

\* the trade is looked up by id alone
findTradeAnyStatus(e, tradeId) ==
    {i \in DOMAIN e.positions : e.positions[i].id = tradeId}

\* this.positions.find(t => t.id === tradeId && t.status === 'open'), as the set of
\* the indices that match; find takes the first
findOpenTrade(e, tradeId) ==
    {i \in DOMAIN e.positions :
         e.positions[i].id = tradeId /\ e.positions[i].status = "open"}

closeTrade(e, tradeId, exitPrice) ==
    LET found == findOpenTrade(e, tradeId)
    IN  IF found = {} THEN Result(e, Null)
        ELSE
            LET i == CHOOSE k \in found : \A j \in found : k <= j
                trade == e.positions[i]
                closePrice == IF exitPrice.tag = "undefined" THEN e.currentPrice
                              ELSE exitPrice.v
                pnl == calculatePnL(trade.type, trade.entryPrice, closePrice, trade.size)
                closed == [trade EXCEPT !.exitPrice = Num(closePrice),
                                        !.status = closedStatus,
                                        !.realizedPnL = Num(pnl)]
                e1 == [e EXCEPT !.positions[i] = closed,
                                !.balance = @ + pnl]
            IN  Result(emitEvent(updateEquity(e1), "TRADE_CLOSED", closed),
                       Ret("trade", tradeId))

RECURSIVE closeEach(_, _)
closeEach(e, trades) ==
    IF trades = <<>> THEN e
    ELSE closeEach(closeTrade(e, Head(trades).id, Undefined).e, Tail(trades))

\* only the first open trade is closed
closeFirstOpenPosition(e) ==
    IF getOpenPositions(e.positions) = <<>> THEN e
    ELSE closeEach(e, <<Head(getOpenPositions(e.positions))>>)

closeAllPositions(e) == closeEach(e, getOpenPositions(e.positions))

(* update *)

\* the stop is tested as for a long trade whatever the type
stopLossHitAsLong(trade, price) == price <= trade.sl

stopLossHit(trade, price) ==
    IF trade.type = "buy" THEN price <= trade.sl ELSE price >= trade.sl

takeProfitHit(trade, price) ==
    IF trade.type = "buy" THEN price >= trade.tp ELSE price <= trade.tp

\* the stop is filled at the market price
stopLossExitAtMarket(trade, price) == Num(price)

\* this.closeTrade(trade.id, trade.sl)
stopLossExit(trade, price) == Num(trade.sl)

\* this.closeTrade(trade.id, trade.tp)
takeProfitExit(trade, price) == Num(trade.tp)

\* The body of the forEach of updateAllPositions for the trade at index i.
updatePosition(e, i) ==
    LET trade == e.positions[i]
        pnl == calculatePnL(trade.type, trade.entryPrice, e.currentPrice, trade.size)
        e1 == [e EXCEPT !.positions[i].unrealizedPnL = pnl]
    IN  IF stopLossHit(trade, e.currentPrice)
        THEN closeTrade(e1, trade.id, stopLossExit(trade, e.currentPrice)).e
        ELSE IF takeProfitHit(trade, e.currentPrice)
        THEN closeTrade([e1 EXCEPT !.positions[i].status = "taken"],
                        trade.id, takeProfitExit(trade, e.currentPrice)).e
        ELSE e1

RECURSIVE updateEach(_, _)
updateEach(e, idxs) ==
    IF idxs = <<>> THEN e
    ELSE updateEach(updatePosition(e, Head(idxs)), Tail(idxs))

\* every trade is evaluated again, closed ones included
allIndices(pos) == [i \in 1..Len(pos) |-> i]

\* The indices of the trades getOpenPositions() returns, in order.
openIndices(pos) ==
    SelectSeq([i \in 1..Len(pos) |-> i], LAMBDA i : pos[i].status = "open")

updateAllPositions(e) == updateEach(e, openIndices(e.positions))

update(e, price) ==
    updateEquity(updateAllPositions([e EXCEPT !.currentPrice = price]))

\* A mutant of reset: the counter goes on from where it was
resetKeepingCounter(e) ==
    [e EXCEPT !.positions = <<>>,
              !.balance = config.initialBalance,
              !.equity = config.initialBalance]

reset(e) ==
    [e EXCEPT !.positions = <<>>,
              !.balance = config.initialBalance,
              !.equity = config.initialBalance,
              !.tradeCounter = 0]

-----------------------------------------------------------------------------
(* The public operations *)

Becomes(e) ==
    /\ positions' = e.positions
    /\ balance' = e.balance
    /\ equity' = e.equity
    /\ currentPrice' = e.currentPrice
    /\ tradeCounter' = e.tradeCounter
    /\ eventCallbacks' = e.eventCallbacks
    /\ events' = e.events
    /\ deliveries' = e.deliveries

PlaceOrder(type, price, sl, tp, size) ==
    LET r == placeOrder(Engine, type, price, sl, tp, size)
    IN  /\ r.ret.kind = "trade" => Len(positions) < MaxTrades
        /\ Becomes(r.e)
        /\ last' = [op |-> "placeOrder", ret |-> r.ret]
        /\ UNCHANGED <<config, replay, frames, ticks>>

Update(price) ==
    /\ Becomes(update(Engine, price))
    /\ last' = [op |-> "update", ret |-> Void]
    /\ UNCHANGED <<config, replay, frames, ticks>>

CloseTrade(tradeId, exitPrice) ==
    LET r == closeTrade(Engine, tradeId, exitPrice)
    IN  /\ Becomes(r.e)
        /\ last' = [op |-> "closeTrade", ret |-> r.ret]
        /\ UNCHANGED <<config, replay, frames, ticks>>

CloseAllPositions ==
    /\ Becomes(closeAllPositions(Engine))
    /\ last' = [op |-> "closeAllPositions", ret |-> Void]
    /\ UNCHANGED <<config, replay, frames, ticks>>

\* reset() also starts a new history: the trades of `events` are the current ones.
Reset ==
    /\ Becomes([reset(Engine) EXCEPT !.events = <<>>, !.deliveries = <<>>])
    /\ last' = [op |-> "reset", ret |-> Void]
    /\ UNCHANGED <<config, replay, frames, ticks>>

\* this.eventCallbacks.push(callback)
onTradeEvent(e, callback) ==
    [e EXCEPT !.eventCallbacks = Append(@, callback)]

\* this.eventCallbacks = this.eventCallbacks.filter(cb => cb !== callback)
offTradeEvent(e, callback) ==
    [e EXCEPT !.eventCallbacks = SelectSeq(@, LAMBDA cb : cb # callback)]

\* Subscribers register before the first order, as useBroker does when it mounts.
OnTradeEvent(callback) ==
    /\ Len(eventCallbacks) < MaxCallbacks
    /\ positions = <<>>
    /\ Becomes(onTradeEvent(Engine, callback))
    /\ last' = [op |-> "onTradeEvent", ret |-> Void]
    /\ UNCHANGED <<config, replay, frames, ticks>>

OffTradeEvent(callback) ==
    /\ Becomes(offTradeEvent(Engine, callback))
    /\ last' = [op |-> "offTradeEvent", ret |-> Void]
    /\ UNCHANGED <<config, replay, frames, ticks>>

-----------------------------------------------------------------------------
(* The replay clock's methods, as functions of the controller.  A controller *)
(* c is the record of its fields, of the pending animation frames and of the *)
(* onTickChange calls made so far in the step:                               *)

Controller ==
    [ onTickChange     |-> replay.onTickChange,
      dataLength       |-> replay.dataLength,
      currentTickIndex |-> replay.currentTickIndex,
      playbackSpeed    |-> replay.playbackSpeed,
      isPaused         |-> replay.isPaused,
      animationFrameId |-> replay.animationFrameId,
      sinceLastUpdate  |-> replay.sinceLastUpdate,
      frames           |-> frames,
      ticks            |-> <<>> ]

\* this.animationFrameId = requestAnimationFrame(loop): the browser queues the
\* loop under an id no pending frame has
requestAnimationFrame(c) ==
    LET free == FrameIds \ c.frames
        id == CHOOSE i \in free : \A j \in free : i <= j
    IN  [c EXCEPT !.frames = @ \cup {id}, !.animationFrameId = id]

\* cancelAnimationFrame(id): a frame that already ran is not pending any more
cancelAnimationFrame(c, id) == [c EXCEPT !.frames = @ \ {id}]

\* A mutant of pause: the pending frame is not cancelled
pauseWithoutCancel(c) == [c EXCEPT !.isPaused = TRUE, !.animationFrameId = NoFrame]

pause(c) ==
    LET paused == [c EXCEPT !.isPaused = TRUE]
    IN  IF paused.animationFrameId # NoFrame
        THEN [cancelAnimationFrame(paused, paused.animationFrameId)
                 EXCEPT !.animationFrameId = NoFrame]
        ELSE paused

\* The tail of startPlaybackLoop: the first frame of the loop is requested
startPlaybackLoop(c) == requestAnimationFrame(c)

\* A mutant of play: the loop is started whatever the state
playAlways(c) ==
    startPlaybackLoop([c EXCEPT !.isPaused = FALSE, !.sinceLastUpdate = 0])

\* lastUpdate = performance.now(): no time has passed since lastUpdate
play(c) ==
    IF c.isPaused
    THEN startPlaybackLoop([c EXCEPT !.isPaused = FALSE, !.sinceLastUpdate = 0])
    ELSE c

togglePlayPause(c) == IF c.isPaused THEN play(c) ELSE pause(c)

\* callback(tickIndex): what the call does to the controller before it returns
runTickCallback(c) ==
    IF c.onTickChange = "restarter"
    THEN togglePlayPause(togglePlayPause(c))
    ELSE c

\* this.onTickChange?.(this.state.currentTickIndex)
onTickChange(c) ==
    runTickCallback([c EXCEPT !.ticks = Append(@, c.currentTickIndex)])

setOnTickChange(c, callback) == [c EXCEPT !.onTickChange = callback]

clampedIndex(c, index) == Max(0, Min(index, c.dataLength - 1))

\* A mutant of seek: the target is taken as it is
seekUnclamped(c, index) ==
    IF index # c.currentTickIndex
    THEN onTickChange([c EXCEPT !.currentTickIndex = index])
    ELSE c

seek(c, index) ==
    IF clampedIndex(c, index) # c.currentTickIndex
    THEN onTickChange([c EXCEPT !.currentTickIndex = clampedIndex(c, index)])
    ELSE c

\* A mutant of step: the index moves by two
stepByTwo(c, direction) ==
    seek(c, c.currentTickIndex + (IF direction = "forward" THEN 2 ELSE -2))

step(c, direction) ==
    seek(c, c.currentTickIndex + (IF direction = "forward" THEN 1 ELSE -1))

setSpeed(c, speed) == [c EXCEPT !.playbackSpeed = Max(MinPlaybackSpeed, speed)]

setCurrentTickIndex(c, index) == seek(c, index)

\* Math.round(progress * (data.length - 1)), progress in percent: the nearest
\* integer, a half rounded up
roundedIndex(c, progress) == (2 * progress * (c.dataLength - 1) + 100) \div 200

setProgress(c, progress) == seek(c, roundedIndex(c, progress))

\* A mutant of advance: the index advances in every frame
advanceEveryFrame(c) ==
    IF c.currentTickIndex < c.dataLength - 1
    THEN [onTickChange([c EXCEPT !.currentTickIndex = @ + 1])
             EXCEPT !.sinceLastUpdate = 0]
    ELSE pause(c)

\* if (timestamp - lastUpdate >= playbackSpeed) { ... }: the index advances and
\* lastUpdate = timestamp, or the clock pauses at the last sample
advance(c) ==
    IF c.sinceLastUpdate >= c.playbackSpeed
    THEN IF c.currentTickIndex < c.dataLength - 1
         THEN [onTickChange([c EXCEPT !.currentTickIndex = @ + 1])
                  EXCEPT !.sinceLastUpdate = 0]
         ELSE pause(c)
    ELSE c

\* if (!isPaused && currentTickIndex < data.length - 1)
continues(c) == ~c.isPaused /\ c.currentTickIndex < c.dataLength - 1

\* The loop of startPlaybackLoop, run by the browser as the pending frame id
loop(c, id) ==
    LET run == [c EXCEPT !.frames = @ \ {id}]
    IN  IF ~run.isPaused
        THEN IF continues(advance(run))
             THEN requestAnimationFrame(advance(run))
             ELSE [advance(run) EXCEPT !.animationFrameId = NoFrame]
        ELSE run

\* A mutant of setData: without reset the index is left where it was
setDataKeepingIndex(c, n, resetState) ==
    IF resetState
    THEN pause([c EXCEPT !.dataLength = n, !.currentTickIndex = 0])
    ELSE [c EXCEPT !.dataLength = n]

setData(c, n, resetState) ==
    LET given == [c EXCEPT !.dataLength = n]
    IN  IF resetState
        THEN LET rewound == [given EXCEPT !.currentTickIndex = 0, !.isPaused = TRUE]
             IN  IF rewound.animationFrameId # NoFrame
                 THEN [cancelAnimationFrame(rewound, rewound.animationFrameId)
                          EXCEPT !.animationFrameId = NoFrame]
                 ELSE rewound
        ELSE seek(given, given.currentTickIndex)

\* A step that may request a frame is taken while fewer than MaxFrames are pending
FrameIdAvailable == Cardinality(frames) < MaxFrames

\* The controller after a step
ClockBecomes(c) ==
    /\ replay' = [ onTickChange     |-> c.onTickChange,
                   dataLength       |-> c.dataLength,
                   currentTickIndex |-> c.currentTickIndex,
                   playbackSpeed    |-> c.playbackSpeed,
                   isPaused         |-> c.isPaused,
                   animationFrameId |-> c.animationFrameId,
                   sinceLastUpdate  |-> c.sinceLastUpdate ]
    /\ frames' = c.frames
    /\ ticks' = c.ticks

engineVars == <<config, positions, balance, equity, currentPrice, tradeCounter,
                eventCallbacks, events, deliveries>>

(* The clock's steps: the calls of its methods, the frames the browser runs  *)
(* and the passing of time.                                                  *)

Play ==
    /\ FrameIdAvailable
    /\ ClockBecomes(play(Controller))
    /\ last' = [op |-> "play", ret |-> Void]
    /\ UNCHANGED engineVars

Pause ==
    /\ ClockBecomes(pause(Controller))
    /\ last' = [op |-> "pause", ret |-> Void]
    /\ UNCHANGED engineVars

TogglePlayPause ==
    /\ FrameIdAvailable
    /\ ClockBecomes(togglePlayPause(Controller))
    /\ last' = [op |-> "togglePlayPause", ret |-> Void]
    /\ UNCHANGED engineVars

Step(direction) ==
    /\ FrameIdAvailable
    /\ ClockBecomes(step(Controller, direction))
    /\ last' = [op |-> "step", ret |-> Void]
    /\ UNCHANGED engineVars

Seek(index) ==
    /\ FrameIdAvailable
    /\ ClockBecomes(seek(Controller, index))
    /\ last' = [op |-> "seek", ret |-> Void]
    /\ UNCHANGED engineVars

SetSpeed(speed) ==
    /\ ClockBecomes(setSpeed(Controller, speed))
    /\ last' = [op |-> "setSpeed", ret |-> Void]
    /\ UNCHANGED engineVars

SetCurrentTickIndex(index) ==
    /\ FrameIdAvailable
    /\ ClockBecomes(setCurrentTickIndex(Controller, index))
    /\ last' = [op |-> "setCurrentTickIndex", ret |-> Void]
    /\ UNCHANGED engineVars

SetProgress(progress) ==
    /\ FrameIdAvailable
    /\ ClockBecomes(setProgress(Controller, progress))
    /\ last' = [op |-> "setProgress", ret |-> Void]
    /\ UNCHANGED engineVars

SetData(n, resetState) ==
    /\ FrameIdAvailable
    /\ ClockBecomes(setData(Controller, n, resetState))
    /\ last' = [op |-> "setData", ret |-> Void]
    /\ UNCHANGED engineVars

SetOnTickChange(callback) ==
    /\ ClockBecomes(setOnTickChange(Controller, callback))
    /\ last' = [op |-> "setOnTickChange", ret |-> Void]
    /\ UNCHANGED engineVars

\* The browser runs a pending frame
AnimationFrame(id) ==
    /\ id \in frames
    /\ FrameIdAvailable
    /\ ClockBecomes(loop(Controller, id))
    /\ last' = [op |-> "loop", ret |-> Void]
    /\ UNCHANGED engineVars

\* Time passes: performance.now() and the timestamp of the next frame grow
TimePasses(elapsed) ==
    /\ replay' = [replay EXCEPT
                     !.sinceLastUpdate = Min(@ + elapsed, ElapsedCap)]
    /\ ticks' = <<>>
    /\ last' = [op |-> "time", ret |-> Void]
    /\ UNCHANGED <<engineVars, frames>>

InitReplay ==
    /\ Init
    /\ config = constructor(Undefined, Undefined)

NextReplay ==
    \/ Play
    \/ Pause
    \/ TogglePlayPause
    \/ \E direction \in Directions : Step(direction)
    \/ \E index \in IndexInputs : Seek(index)
    \/ \E index \in IndexInputs : SetCurrentTickIndex(index)
    \/ \E progress \in ProgressInputs : SetProgress(progress)
    \/ \E speed \in SpeedInputs : SetSpeed(speed)
    \/ \E n \in DataLengths, resetState \in BOOLEAN : SetData(n, resetState)
    \/ \E id \in FrameIds : AnimationFrame(id)
    \/ \E elapsed \in TimeSteps : TimePasses(elapsed)

SpecReplay == InitReplay /\ [][NextReplay]_vars

\* The clock with a tick callback that may call back into the controller
NextRestart ==
    \/ NextReplay
    \/ \E callback \in TickCallbacks : SetOnTickChange(callback)

SpecRestart == InitReplay /\ [][NextRestart]_vars

Next ==
    \/ \E o \in OrderInputs : PlaceOrder(o[1], o[2], o[3], o[4], o[5])
    \/ \E price \in UpdatePrices : Update(price)
    \/ \E tradeId \in TradeIds, exitPrice \in ExitInputs : CloseTrade(tradeId, exitPrice)
    \/ CloseAllPositions
    \/ Reset

\* Orders whose stop is at, just inside and far inside the default minimum distance
\* of 10 points, <<type, price, sl, tp, size>>.
WideOrderInputs ==
    {<<"buy", Num(200), Num(sl), Num(202), Undefined>> : sl \in {180, 181, 199}}
    \cup {<<"sell", Num(200), Num(sl), Num(199), Undefined>> : sl \in {201, 219, 220}}

NextOrders ==
    \/ \E o \in WideOrderInputs : PlaceOrder(o[1], o[2], o[3], o[4], o[5])
    \/ CloseAllPositions
    \/ Reset

\* The engine driven with orders that pass the default minimum stop distance.
SpecOrders == Init /\ [][NextOrders]_vars

\* An engine with subscribers is constructed with a stop distance of half a point and
\* no limit on open positions, and is given one short order.
BusConfigInputs == {<<Num(1), Num(0)>>}

BusOrderInputs == { <<"sell", Num(200), Num(201), Num(199), Undefined>> }

BusUpdatePrices == {201}

InitBus ==
    /\ Init
    /\ \E options \in BusConfigInputs : config = constructor(options[1], options[2])

NextBus ==
    \/ \E callback \in Callbacks : OnTradeEvent(callback)
    \/ \E callback \in Callbacks : OffTradeEvent(callback)
    \/ \E o \in BusOrderInputs :
           Len(positions) < MaxBusTrades /\ PlaceOrder(o[1], o[2], o[3], o[4], o[5])
    \/ \E price \in BusUpdatePrices : Update(price)
    \/ \E tradeId \in 0..MaxBusTrades : CloseTrade(tradeId, Undefined)
    \/ CloseAllPositions
    \/ Reset

\* The engine with subscribers.
SpecBus == InitBus /\ [][NextBus]_vars

\* Orders for the sizing of trades: a long with its stop half a point away, without
\* a size, with the default lot, with 19995 lots, whose loss at the stop (9997.5)
\* leaves a balance of 2.5, and with 30000 lots, whose loss at the stop (15000)
\* exceeds the initial balance.
SizingConfigInputs == {<<Num(1), Num(0)>>, <<Num(1), Num(1)>>}

SizingOrderInputs ==
    {<<"buy", Num(200), Num(199), Num(202), size>> :
        size \in {Undefined, Num(10), Num(1999500), Num(3000000)}}

InitSizing ==
    /\ Init
    /\ \E options \in SizingConfigInputs : config = constructor(options[1], options[2])

NextSizing ==
    \/ \E o \in SizingOrderInputs : PlaceOrder(o[1], o[2], o[3], o[4], o[5])
    \/ \E price \in UpdatePrices : Update(price)
    \/ \E tradeId \in TradeIds : CloseTrade(tradeId, Num(201))
    \/ Reset

\* The engine driven with orders of every size.
SpecSizing == InitSizing /\ [][NextSizing]_vars

\* The engine with a subscriber that closes trades while update() runs: a long and
\* a short order around 100.0, and prices that hit a stop, either target or none.
LiquidationOrderInputs ==
    { <<"buy", Num(200), Num(199), Num(202), Undefined>>,
      <<"sell", Num(200), Num(201), Num(199), Undefined>> }

NextLiquidation ==
    \/ \E callback \in LiquidatingCallbacks : OnTradeEvent(callback)
    \/ \E o \in LiquidationOrderInputs : PlaceOrder(o[1], o[2], o[3], o[4], o[5])
    \/ \E price \in UpdatePrices : Update(price)
    \/ \E tradeId \in TradeIds : CloseTrade(tradeId, Undefined)
    \/ Reset

SpecLiquidation == InitBus /\ [][NextLiquidation]_vars

\* The browser runs every frame that stays pending, and time passes
FairReplay ==
    /\ WF_vars(\E id \in FrameIds : AnimationFrame(id))
    /\ WF_vars(\E elapsed \in TimeSteps : TimePasses(elapsed))

SpecReplayFair == SpecReplay /\ FairReplay

Spec == Init /\ [][Next]_vars

-----------------------------------------------------------------------------
(* Properties *)

RECURSIVE SumSet(_, _)
SumSet(S, f) ==
    IF S = {} THEN 0
    ELSE LET x == CHOOSE y \in S : TRUE IN f[x] + SumSet(S \ {x}, f)

OpenIndices(pos) == {i \in DOMAIN pos : pos[i].status = "open"}

\* The trades that are open before the step and not after it.
ClosedByStep == {i \in OpenIndices(positions) : positions'[i].status # "open"}

ExpectedPnL(t, exitPrice) ==
    IF t.type = "buy" THEN (exitPrice - t.entryPrice) * t.size
    ELSE (t.entryPrice - exitPrice) * t.size

\* C1: after every operation, and whenever an event is handed to the subscribers,
\* equity = balance + the sum of unrealizedPnL over the trades whose status is open.
C1_EquityIsBalancePlusOpenPnL ==
    /\ equity = balance
                + SumSet(OpenIndices(positions),
                         [i \in DOMAIN positions |-> positions[i].unrealizedPnL])
    /\ \A k \in DOMAIN events : events[k].equityOk

C1_Witness ==
    /\ last.op = "update"
    /\ events # <<>>
    /\ \E i, j \in DOMAIN positions :
           /\ positions[i].status = "open" /\ positions[i].unrealizedPnL # 0
           /\ positions[j].status # "open" /\ positions[j].unrealizedPnL # 0

\* C2: when update(p) finds an open trade whose take-profit is hit, the trade is closed
\* as taken at the take-profit level: status taken, exit price = takeProfit,
\* realizedPnL = (takeProfit - entryPrice) * size (mirrored for short), and balance
\* grows by that realizedPnL (Scenario A: 10000 becomes 10000.1).
C2_TakeProfitClosesAtTakeProfit ==
    [][last'.op = "update" =>
        \A i \in OpenIndices(positions) :
            LET t == positions[i] IN
            (~stopLossHit(t, currentPrice') /\ takeProfitHit(t, currentPrice')) =>
                /\ positions'[i].status = "taken"
                /\ positions'[i].exitPrice = Num(t.tp)
                /\ positions'[i].realizedPnL = Num(ExpectedPnL(t, t.tp))
                /\ (ClosedByStep = {i} => balance' = balance + ExpectedPnL(t, t.tp))]_vars

\* C3: when update(p) finds an open trade whose stop-loss is hit, the trade is closed
\* as stopped at the stop-loss level and not at p: exit price = stopLoss, realizedPnL =
\* (stopLoss - entryPrice) * size (mirrored for short), and balance changes by exactly
\* that realizedPnL (Scenario B: 10000 becomes 9999.95).
C3_StopLossClosesAtStopLoss ==
    [][last'.op = "update" =>
        LET hit == {i \in OpenIndices(positions) :
                        stopLossHit(positions[i], currentPrice')}
        IN  /\ \A i \in hit :
                   LET t == positions[i] IN
                   /\ positions'[i].status = "stopped"
                   /\ positions'[i].exitPrice = Num(t.sl)
                   /\ positions'[i].realizedPnL = Num(ExpectedPnL(t, t.sl))
            /\ ClosedByStep = hit =>
                   balance' = balance
                       + SumSet(hit, [i \in DOMAIN positions |->
                                         ExpectedPnL(positions[i], positions[i].sl)])
            /\ ( /\ Len(positions) = 1
                 /\ positions[1].status = "open"
                 /\ positions[1].type = "buy"
                 /\ positions[1].entryPrice = 200
                 /\ positions[1].sl = 199
                 /\ positions[1].size = 10
                 /\ balance = 2000000
                 /\ currentPrice' = 199 ) => balance' = 1999990]_vars

C3_Witness ==
    /\ last.op = "update"
    /\ \E i \in DOMAIN positions :
           LET t == positions[i] IN
           /\ t.status = "stopped"
           /\ stopLossHit(t, currentPrice)
           /\ currentPrice # t.sl
           /\ t.unrealizedPnL = ExpectedPnL(t, currentPrice)
           /\ t.exitPrice = Num(t.sl)
           /\ balance = InitialBalance + ExpectedPnL(t, t.sl)

\* C4: balance changes only when a trade leaves status open, and then by exactly that
\* trade's realizedPnL, on every close path (stop-loss hit, take-profit hit, closeTrade,
\* closeAllPositions); a step that closes no trade leaves balance unchanged.
C4_BalanceChangesByRealizedPnL ==
    [][last'.op # "reset" =>
        /\ \A i \in ClosedByStep : positions'[i].realizedPnL.tag = "num"
        /\ balance' = balance
               + SumSet(ClosedByStep,
                        [i \in DOMAIN positions |-> positions'[i].realizedPnL.v])]_vars

\* C5: realizedPnL is unset while a trade is open, is set in the step in which the
\* status becomes stopped or taken, and never changes in a later step.
C5_RealizedPnLSetOnceAtClose ==
    [][\A i \in DOMAIN positions' :
          /\ positions'[i].status = "open" => positions'[i].realizedPnL = Undefined
          /\ positions'[i].status # "open" => positions'[i].realizedPnL.tag = "num"
          /\ ( /\ last'.op # "reset"
               /\ i \in DOMAIN positions
               /\ positions[i].status # "open" ) =>
                 positions'[i].realizedPnL = positions[i].realizedPnL]_vars

TradeClosedEvents(id) ==
    {k \in DOMAIN events : events[k].type = "TRADE_CLOSED" /\ events[k].trade.id = id}

\* C6: every trade that has left status open, by any path, has had exactly one
\* TRADE_CLOSED event handed to the subscribers, and an open trade has had none.
C6_OneTradeClosedEventPerClose ==
    \A i \in DOMAIN positions :
        Cardinality(TradeClosedEvents(positions[i].id))
            = IF positions[i].status = "open" THEN 0 ELSE 1

\* C7: the number of trades with status open never exceeds the configured
\* maxOpenPositions, whatever value is configured.
C7_OpenCountWithinMaximum ==
    Cardinality(OpenIndices(positions)) <= config.maxOpenPositions

\* C8: on an engine constructed with only initialBalance = 10000,
\* placeOrder(buy, 100.0, 99.5, 101.0, 0.1) succeeds and returns an open trade.
C8_DocumentedOrderSucceeds ==
    [][( /\ config = constructor(Undefined, Undefined)
         /\ PlaceOrder("buy", Num(200), Num(199), Num(202), Num(10)) ) =>
            /\ last'.ret.kind = "trade"
            /\ positions' # <<>>
            /\ positions'[Len(positions')].status = "open"]_vars

\* C9: a rejected placeOrder returns the no-trade outcome, leaves the trade list,
\* balance, equity, id counter and last observed price unchanged and delivers no event;
\* an order with an invalid price, a stop or target on the wrong side, a stop nearer
\* than the minimum or an invalid size is never accepted.
C9_RejectedOrderChangesNothing ==
    [][last'.op = "placeOrder" =>
        /\ last'.ret.kind = "null" =>
               UNCHANGED <<positions, balance, equity, tradeCounter, currentPrice, events>>
        /\ last'.ret.kind # "null" =>
               /\ Len(positions') = Len(positions) + 1
               /\ LET t == positions'[Len(positions')] IN
                  /\ t.entryPrice > 0 /\ t.sl > 0 /\ t.tp > 0
                  /\ IF t.type = "buy" THEN t.sl < t.entryPrice /\ t.entryPrice < t.tp
                     ELSE t.tp < t.entryPrice /\ t.entryPrice < t.sl
                  /\ Abs(t.entryPrice - t.sl) >= config.minSLDistance
                  /\ t.size > 0]_vars

C9_Witness ==
    /\ last = [op |-> "placeOrder", ret |-> Null]
    /\ config.maxOpenPositions = 1
    /\ Len(positions) = 2
    /\ Cardinality(OpenIndices(positions)) = 1
    /\ events # <<>>

\* C10: every trade ever created has stopLoss < entryPrice < takeProfit when long and
\* takeProfit < entryPrice < stopLoss when short (so a stop at the entry is rejected).
C10_StopAndTargetOnTheirSides ==
    \A i \in DOMAIN positions :
        LET t == positions[i] IN
        IF t.type = "buy" THEN t.sl < t.entryPrice /\ t.entryPrice < t.tp
        ELSE t.tp < t.entryPrice /\ t.entryPrice < t.sl

C10_Witness ==
    /\ last = [op |-> "placeOrder", ret |-> Null]
    /\ \E i, j \in DOMAIN positions :
           positions[i].type = "buy" /\ positions[j].type = "sell"

\* C11: every trade the engine holds has its stop at least the configured minimum
\* distance (10 points when none is configured) from its entry; an order with a
\* nearer stop is rejected and so never becomes a trade.
C11_StopAtLeastMinimumDistance ==
    \A i \in DOMAIN positions :
        Abs(positions[i].entryPrice - positions[i].sl) >= config.minSLDistance

\* Under the default configuration a trade with its stop exactly 10 points away
\* exists, and the last order was rejected.
C11_Witness ==
    /\ config = constructor(Undefined, Undefined)
    /\ \E i \in DOMAIN positions :
           Abs(positions[i].entryPrice - positions[i].sl) = DefaultMinSLDistance
    /\ last = [op |-> "placeOrder", ret |-> Null]

C13_EventsOfUpdateSeeRepricedTrades ==
    [][ last'.op = "update" =>
          \A k \in (Len(events) + 1)..Len(events') :
              events'[k].type = "TRADE_CLOSED" =>
                  events'[k].repriced /\ events'[k].equityOk ]_vars

\* C14: update(p) called again with the same p right after update(p) changes
\* nothing (no field of the engine or of a trade) and delivers no event.
C14_SecondUpdateChangesNothing ==
    last.op = "update" => update(Engine, currentPrice) = Engine

\* After an update that stopped one trade and repriced another that stays open.
C14_Witness ==
    /\ last.op = "update"
    /\ \E i, j \in DOMAIN positions :
           /\ positions[i].status = "stopped"
           /\ stopLossHit(positions[i], currentPrice)
           /\ positions[j].status = "open"
           /\ positions[j].unrealizedPnL # 0

\* The stop-loss condition of a trade at price p: p at or below the stop for a long,
\* at or above it for a short.
StopLossCondition(t, p) ==
    (t.type = "buy" /\ p <= t.sl) \/ (t.type = "sell" /\ p >= t.sl)

\* C15: an open trade whose stop-loss condition holds for the price of update() is
\* closed by that call as stopped, and no trade is closed as taken by a call for
\* whose price its stop-loss condition holds.
C15_StopLossBeforeTakeProfit ==
    [][ last'.op = "update" =>
          \A i \in OpenIndices(positions) :
              LET hit == StopLossCondition(positions[i], currentPrice')
              IN  /\ hit => positions'[i].status = "stopped"
                  /\ positions'[i].status = "taken" => ~hit ]_vars

\* One price stopped a short at its stop and took a long at its target.
C15_Witness ==
    /\ last.op = "update"
    /\ \E i, j \in DOMAIN positions :
           /\ positions[i].status = "stopped"
           /\ StopLossCondition(positions[i], currentPrice)
           /\ positions[i].exitPrice = Num(positions[i].sl)
           /\ positions[j].status = "taken"
           /\ currentPrice >= positions[j].tp
           /\ positions[j].type = "buy"

\* C16: closeTrade(id) with an id that belongs to no trade, or to a trade that is
\* already stopped or taken, returns the not-found outcome, delivers no event and
\* leaves every trade, the balance and the equity unchanged.  (closeTrade returns
\* the trade whose id it was given or nothing, so the id of a returned trade is
\* the id of the call, and a call that returned nothing had an id of no open trade.)
C16_CloseOfNoOpenTradeChangesNothing ==
    [][ last'.op = "closeTrade" =>
          IF \E i \in DOMAIN positions :
                 positions[i].id = last'.ret.id /\ positions[i].status = "open"
          THEN last'.ret.kind = "trade"
          ELSE /\ last'.ret = Null
               /\ UNCHANGED <<positions, balance, equity, currentPrice, tradeCounter,
                              events>> ]_vars

\* closeTrade returned not-found while the engine holds trades, none of them open:
\* the id was unknown or that of a stopped or taken trade.
C16_Witness ==
    /\ last = [op |-> "closeTrade", ret |-> Null]
    /\ Len(positions) = MaxTrades
    /\ \E i \in DOMAIN positions : positions[i].status = "stopped"
    /\ \E i \in DOMAIN positions : positions[i].status = "taken"

\* C17: closeTrade(id, exitPrice?) on an open trade sets its status to stopped, its
\* exit price to exitPrice or, when omitted, to the price of the most recent update()
\* (currentPrice, written by update() only), its realizedPnL to
\* (exit - entryPrice) * size for a long (mirrored for a short), adds that to the
\* balance and returns the trade; no other trade is touched.
C17_CloseTradeClosesAtExitPrice ==
    [][ last'.op = "closeTrade" =>
        \A i \in OpenIndices(positions), exitPrice \in ExitInputs :
            CloseTrade(positions[i].id, exitPrice) =>
                LET t == positions[i]
                    tradeId == t.id
                    exit == IF exitPrice = Undefined THEN currentPrice ELSE exitPrice.v
                IN  /\ positions'[i].status = "stopped"
                    /\ positions'[i].exitPrice = Num(exit)
                    /\ positions'[i].realizedPnL = Num(ExpectedPnL(t, exit))
                    /\ balance' = balance + ExpectedPnL(t, exit)
                    /\ last'.ret = Ret("trade", tradeId)
                    /\ \A j \in DOMAIN positions : j # i => positions'[j] = positions[j]
      ]_vars

\* A short was closed by closeTrade at a price other than its stop, with a profit
\* or loss that moved the balance.
C17_Witness ==
    /\ last.op = "closeTrade"
    /\ last.ret.kind = "trade"
    /\ \E i \in DOMAIN positions :
           /\ positions[i].id = last.ret.id
           /\ positions[i].type = "sell"
           /\ positions[i].status = "stopped"
           /\ positions[i].exitPrice # Num(positions[i].sl)
           /\ positions[i].realizedPnL.v # 0
           /\ balance # InitialBalance

\* In the order of publication, every TRADE_CLOSED of a trade comes after a
\* TRADE_OPENED of that trade.
PublishedOpenedBeforeClosed ==
    \A k \in DOMAIN events :
        events[k].type = "TRADE_CLOSED" =>
            \E j \in 1..(k - 1) :
                /\ events[j].type = "TRADE_OPENED"
                /\ events[j].trade.id = events[k].trade.id

\* C18: for every trade the TRADE_OPENED event is delivered before any TRADE_CLOSED
\* event of that trade, and no TRADE_CLOSED is delivered for a trade that had no
\* TRADE_OPENED: a callback that is called with a TRADE_CLOSED of a trade, and was
\* registered when the TRADE_OPENED of that trade was published, has been called
\* with that TRADE_OPENED before.
C18_OpenedBeforeClosed ==
    /\ PublishedOpenedBeforeClosed
    /\ \A d \in DOMAIN deliveries :
          events[deliveries[d].event].type = "TRADE_CLOSED" =>
              \A j \in DOMAIN events :
                  ( /\ events[j].type = "TRADE_OPENED"
                    /\ events[j].trade.id = events[deliveries[d].event].trade.id
                    /\ \E n \in DOMAIN events[j].subscribers :
                           events[j].subscribers[n] = deliveries[d].to )
                  => \E c \in 1..(d - 1) :
                         /\ deliveries[c].to = deliveries[d].to
                         /\ deliveries[c].event = j

\* The callbacks that were called with the k-th published event, in the order of
\* the calls.
DeliveredTo(k) ==
    LET ds == SelectSeq(deliveries, LAMBDA d : d.event = k)
    IN  [n \in 1..Len(ds) |-> ds[n].to]

\* The engine with every throwing callback replaced by one that returns.
WithoutFailures(e) ==
    [e EXCEPT !.eventCallbacks =
        [n \in 1..Len(e.eventCallbacks) |->
            IF throws(e.eventCallbacks[n]) THEN "observer" ELSE e.eventCallbacks[n]]]

\* What an operation leaves: the account, the trades and the events it published.
Outcome(e) ==
    [ positions    |-> e.positions,
      balance      |-> e.balance,
      equity       |-> e.equity,
      currentPrice |-> e.currentPrice,
      tradeCounter |-> e.tradeCounter,
      published    |-> [k \in 1..Len(e.events) |->
                           <<e.events[k].type, e.events[k].trade>>] ]

\* C19: when a subscriber raises an error during the delivery of an event, every
\* subscriber registered after it is still called with that event, no error reaches
\* the caller, and placeOrder, update, closeTrade and closeAllPositions return the
\* same result and leave the same engine state as if no subscriber had failed.
C19_FailingSubscriberIsIsolated ==
    /\ \A d \in DOMAIN deliveries : deliveries[d].outcome \in {"returned", "caught"}
    /\ \A k \in DOMAIN events : DeliveredTo(k) = events[k].subscribers
    /\ \A o \in BusOrderInputs :
           LET r == placeOrder(Engine, o[1], o[2], o[3], o[4], o[5])
               q == placeOrder(WithoutFailures(Engine), o[1], o[2], o[3], o[4], o[5])
           IN  r.ret = q.ret /\ Outcome(r.e) = Outcome(q.e)
    /\ \A price \in BusUpdatePrices :
           Outcome(update(Engine, price)) = Outcome(update(WithoutFailures(Engine), price))
    /\ \A tradeId \in 0..MaxBusTrades :
           LET r == closeTrade(Engine, tradeId, Undefined)
               q == closeTrade(WithoutFailures(Engine), tradeId, Undefined)
           IN  r.ret = q.ret /\ Outcome(r.e) = Outcome(q.e)
    /\ Outcome(closeAllPositions(Engine))
           = Outcome(closeAllPositions(WithoutFailures(Engine)))

\* update() published a TRADE_CLOSED while a throwing callback was registered before
\* another callback, which was called with the event after the error.
C19_Witness ==
    /\ last.op = "update"
    /\ \E k \in DOMAIN events, d \in DOMAIN deliveries :
           /\ k = Len(events)
           /\ events[k].type = "TRADE_CLOSED"
           /\ events[k].subscribers = <<"thrower", "closer">>
           /\ d > 1
           /\ deliveries[d - 1] = delivery("thrower", k, "caught")
           /\ deliveries[d] = delivery("closer", k, "returned")

Registered(callbacks) == {callbacks[n] : n \in DOMAIN callbacks}

\* The callbacks of a list in the order of their first registration.
RECURSIVE SubscriptionOrder(_)
SubscriptionOrder(callbacks) ==
    IF callbacks = <<>> THEN <<>>
    ELSE LET front == SubscriptionOrder(SubSeq(callbacks, 1, Len(callbacks) - 1))
             final == callbacks[Len(callbacks)]
         IN  IF final \in Registered(front) THEN front ELSE Append(front, final)

\* Every event published by the step is delivered to the callbacks registered when
\* it was published, and to no other, in the order of their registration.
DeliveredInSubscriptionOrder ==
    [][ \A k \in (Len(events) + 1)..Len(events') :
            /\ Registered(DeliveredTo(k)') = Registered(events'[k].subscribers)
            /\ SubscriptionOrder(DeliveredTo(k)') = SubscriptionOrder(events'[k].subscribers)
      ]_vars

\* A callback removed with offTradeEvent is registered no more, and so is in the
\* list of no event published afterwards.
UnsubscribedIsRemoved ==
    [][ \A callback \in Callbacks :
            OffTradeEvent(callback) => callback \notin Registered(eventCallbacks') ]_vars

\* C20: each published event is delivered exactly once to every callback that is
\* subscribed when it is published, in the order in which the callbacks were
\* subscribed, and a callback removed with unsubscribe receives no event published
\* afterwards.
C20_DeliveredExactlyOnceInOrder ==
    [][ /\ \A k \in (Len(events) + 1)..Len(events') :
               /\ \A callback \in Callbacks :
                      Cardinality({d \in DOMAIN deliveries' :
                                       /\ deliveries'[d].event = k
                                       /\ deliveries'[d].to = callback})
                          = IF callback \in Registered(events'[k].subscribers) THEN 1 ELSE 0
               /\ SubscriptionOrder(DeliveredTo(k)')
                      = SubscriptionOrder(events'[k].subscribers)
        /\ \A callback \in Callbacks :
               OffTradeEvent(callback) => callback \notin Registered(eventCallbacks')
      ]_vars


\* C21: the trade carried by a delivered event is a snapshot: the trade record a
\* subscriber received in a TRADE_OPENED event keeps status open, unrealizedPnL 0
\* and no realizedPnL after later update() and closeTrade() calls change the
\* engine's trade.
C21_OpenedEventCarriesSnapshot ==
    \A d \in DOMAIN deliveries :
        events[deliveries[d].event].type = "TRADE_OPENED" =>
            LET received == carriedTrade(positions, events[deliveries[d].event])
            IN  /\ received.status = "open"
                /\ received.unrealizedPnL = 0
                /\ received.realizedPnL = Undefined


\* C22: after closeAllPositions() returns no trade has status open, every trade that
\* was open before the call is stopped with exit price equal to the last observed
\* price, equity equals balance, and balance has changed by the sum of the
\* realizedPnL of the trades it closed.
C22_CloseAllClosesEveryOpenTrade ==
    [][ last'.op = "closeAllPositions" =>
          /\ \A i \in DOMAIN positions' : positions'[i].status # "open"
          /\ \A i \in DOMAIN positions :
                 IF positions[i].status = "open"
                 THEN /\ positions'[i].status = "stopped"
                      /\ positions'[i].exitPrice = Num(currentPrice)
                      /\ positions'[i].realizedPnL
                             = Num(ExpectedPnL(positions[i], currentPrice))
                 ELSE positions'[i] = positions[i]
          /\ equity' = balance'
          /\ balance' = balance
                 + SumSet(OpenIndices(positions),
                          [i \in DOMAIN positions |-> positions'[i].realizedPnL.v]) ]_vars

\* closeAllPositions() closed two trades at the last observed price 100.5, with a
\* profit on each.
C22_Witness ==
    /\ last.op = "closeAllPositions"
    /\ currentPrice = 201
    /\ Len(positions) >= 2
    /\ \A i \in DOMAIN positions :
           /\ positions[i].status = "stopped"
           /\ positions[i].exitPrice = Num(currentPrice)
           /\ positions[i].realizedPnL.v > 0
    /\ balance > InitialBalance
    /\ equity = balance


\* C23: after reset() the whole account state (trade list, balance, equity, id
\* counter and last observed price) equals that of a freshly constructed engine
\* with the same configuration, so any sequence of operations after reset() gives
\* the same results as on a fresh engine.
C23_ResetGivesFreshAccount ==
    [][ last'.op = "reset" =>
          /\ positions' = <<>>
          /\ balance' = config.initialBalance
          /\ equity' = config.initialBalance
          /\ tradeCounter' = 0
          /\ currentPrice' = 0 ]_vars

\* The account fields other than the last observed price are those of a fresh engine
\* after reset().
ResetRestoresTradesBalanceAndCounter ==
    [][ last'.op = "reset" =>
          /\ positions' = <<>>
          /\ balance' = config.initialBalance
          /\ equity' = config.initialBalance
          /\ tradeCounter' = 0 ]_vars


\* C24: every trade ever created has a strictly positive size, for supplied sizes
\* and for auto-computed sizes, after any sequence of operations (including after
\* closes that have reduced the balance).
C24_SizeIsPositive ==
    \A i \in DOMAIN positions : positions[i].size > 0


-----------------------------------------------------------------------------
(* The replay clock *)

TickIndexInRange == replay.currentTickIndex \in 0 .. (replay.dataLength - 1)

\* What a jump to the index target must leave the tick index at
Clamped(target) ==
    IF target < 0 THEN 0
    ELSE IF target > replay.dataLength - 1 THEN replay.dataLength - 1
    ELSE target

SeekClamps ==
    \A target \in IndexInputs :
        (Seek(target) \/ SetCurrentTickIndex(target)) =>
            replay'.currentTickIndex = Clamped(target)

\* C26: whatever sequence of seek, step, setProgress, setCurrentTickIndex,
\* playback ticks and setData runs on a clock over N >= 1 samples that started
\* at index 0, the tick index is an integer of 0 .. N-1; a seek to a target out
\* of that range is not rejected but lands on the nearest end (seek(-5) gives 0,
\* seek(1000) on 100 samples gives 99).
C26_TickIndexStaysInRange == []TickIndexInRange /\ [][SeekClamps]_vars

\* seek(1000) on 100 samples has moved the index to 99
C26_Witness ==
    /\ last.op = "seek"
    /\ replay.dataLength = 100
    /\ replay.currentTickIndex = 99
    /\ ticks = <<99>>


\* The step is the playback tick that moves the index to the last sample
TickReachesLastSample ==
    /\ \E id \in FrameIds : AnimationFrame(id)
    /\ replay'.currentTickIndex # replay.currentTickIndex
    /\ replay'.currentTickIndex = replay'.dataLength - 1

\* After the tick that reaches the last sample no frame is pending, so that no
\* later tick advances the index
LastTickSchedulesNothing ==
    [][TickReachesLastSample =>
          frames' = {} /\ replay'.animationFrameId = NoFrame]_vars

\* C27: the playback tick that moves the index to N-1 leaves the clock paused
\* (isPaused true) with no continuation scheduled, and the index at N-1.
C27_PausedOnReachingLastSample ==
    [][TickReachesLastSample =>
          /\ replay'.isPaused
          /\ frames' = {}
          /\ replay'.animationFrameId = NoFrame
          /\ replay'.currentTickIndex = replay'.dataLength - 1]_vars


\* The step is play() on a paused clock whose index is the last sample
PlayAtLastSample ==
    /\ Play
    /\ replay.isPaused
    /\ replay.currentTickIndex = replay.dataLength - 1

\* play() at the last sample, and the frames run at the last sample, leave the
\* index alone and call no tick callback
LastSampleIsNotLeftByPlayback ==
    [][(PlayAtLastSample \/ ((\E id \in FrameIds : AnimationFrame(id))
                              /\ replay.currentTickIndex = replay.dataLength - 1)) =>
          /\ replay'.currentTickIndex = replay.currentTickIndex
          /\ ticks' = <<>>]_vars

\* C28: play() while the index is already N-1 changes nothing: the clock stays
\* paused, no frame is requested, the index is unchanged and no tick callback is
\* invoked.
C28_PlayAtLastSampleIsNoOp ==
    [][PlayAtLastSample =>
          /\ replay'.isPaused
          /\ frames' = frames
          /\ replay'.animationFrameId = replay.animationFrameId
          /\ replay'.currentTickIndex = replay.currentTickIndex
          /\ ticks' = <<>>]_vars


\* The tick callback was called in the step exactly when the index changed in
\* it, once and with the new index
TickCallbackFollowsIndex ==
    IF replay'.currentTickIndex # replay.currentTickIndex
    THEN ticks' = <<replay'.currentTickIndex>>
    ELSE ticks' = <<>>

\* Every step but a setData with reset calls the tick callback once per change
\* of the index, and no step calls it without a change
TickCallbackFollowsIndexButOnReset ==
    [][/\ ~(\E n \in DataLengths : SetData(n, TRUE)) => TickCallbackFollowsIndex
       /\ ticks' # <<>> => ticks' = <<replay'.currentTickIndex>>
                            /\ replay'.currentTickIndex # replay.currentTickIndex]_vars

\* C29: the registered tick callback is invoked exactly once, with the new index,
\* in every step that changes the tick index (playback tick, seek, step,
\* setProgress, setData with or without reset), and is not invoked in a step that
\* leaves the index unchanged.
C29_TickCallbackOncePerIndexChange == [][TickCallbackFollowsIndex]_vars


\* A frame run on a paused clock, were one pending, changes neither the index nor
\* the state and calls no tick callback
PausedClockIgnoresFrames ==
    replay.isPaused =>
        \A id \in FrameIds :
            /\ loop(Controller, id).currentTickIndex = replay.currentTickIndex
            /\ loop(Controller, id).isPaused
            /\ loop(Controller, id).ticks = <<>>
            /\ loop(Controller, id).frames = frames \ {id}

\* pause() leaves the clock paused with the continuation it had scheduled
\* cancelled; on a paused clock it changes nothing
PauseStopsPlayback ==
    Pause =>
        /\ replay'.isPaused
        /\ replay'.animationFrameId = NoFrame
        /\ replay.animationFrameId \notin frames'
        /\ replay'.currentTickIndex = replay.currentTickIndex
        /\ ticks' = <<>>
        /\ replay.isPaused => UNCHANGED <<replay, frames>>

\* Between pause() and the next play() the frames and the passing of time leave
\* the index alone and call no tick callback
PausedClockStandsStill ==
    (replay.isPaused /\ ((\E id \in FrameIds : AnimationFrame(id))
                          \/ (\E elapsed \in TimeSteps : TimePasses(elapsed)))) =>
        /\ replay'.isPaused
        /\ replay'.currentTickIndex = replay.currentTickIndex
        /\ ticks' = <<>>

\* C30: after pause() the clock is paused and, until play() is called again, no
\* playback tick advances the index or invokes the tick callback, even when a
\* continuation was scheduled before pause(): it is cancelled, and a frame run on
\* a paused clock does nothing; pause() on a paused clock changes nothing.
C30_PauseStopsTicks ==
    /\ []PausedClockIgnoresFrames
    /\ [][PauseStopsPlayback /\ PausedClockStandsStill]_vars

\* pause() has returned on a clock that was playing through three samples, half
\* an interval after its tick to index 1
C30_Witness ==
    /\ last.op = "pause"
    /\ replay.isPaused
    /\ replay.dataLength = 3
    /\ replay.currentTickIndex = 1
    /\ replay.sinceLastUpdate = 50
    /\ frames = {}


\* C31: play() on a paused clock makes it playing and starts the playback loop:
\* one more frame is pending, the one the controller holds the handle of; play()
\* on a playing clock changes no state and requests no frame.
C31_PlayStartsOneLoop ==
    [][Play =>
          IF replay.isPaused
          THEN /\ ~replay'.isPaused
               /\ replay'.animationFrameId \in FrameIds \ frames
               /\ frames' = frames \cup {replay'.animationFrameId}
               /\ replay'.sinceLastUpdate = 0
               /\ replay'.currentTickIndex = replay.currentTickIndex
               /\ ticks' = <<>>
          ELSE /\ UNCHANGED <<replay, frames>>
               /\ ticks' = <<>>]_vars

\* play() has returned on a clock that was already playing for half an interval
\* with its frame pending
C31_Witness ==
    /\ last.op = "play"
    /\ ~replay.isPaused
    /\ replay.sinceLastUpdate = 50
    /\ frames = {replay.animationFrameId}


\* What step(direction) must leave the tick index at
Stepped(direction) ==
    IF direction = "forward"
    THEN Min(replay.currentTickIndex + 1, replay.dataLength - 1)
    ELSE Max(replay.currentTickIndex - 1, 0)

\* C32: step(forward) sets the index to min(index + 1, N-1) and step(backward)
\* to max(index - 1, 0); the tick callback is invoked, once and with the new
\* index, only when the index changed, and the paused/playing state, the pending
\* frames and the baseline are unchanged.
C32_StepMovesByOneClamped ==
    [][\A direction \in Directions :
          Step(direction) =>
              /\ replay'.currentTickIndex = Stepped(direction)
              /\ ticks' = IF Stepped(direction) # replay.currentTickIndex
                          THEN <<Stepped(direction)>> ELSE <<>>
              /\ replay' = [replay EXCEPT !.currentTickIndex = Stepped(direction)]
              /\ frames' = frames]_vars

\* step(forward) has returned on a playing clock at the last of three samples:
\* no callback
C32_Witness ==
    /\ last.op = "step"
    /\ ~replay.isPaused
    /\ replay.dataLength = 3
    /\ replay.currentTickIndex = 2
    /\ ticks = <<>>


\* C33: a frame run while playing advances the index, by exactly one, and invokes
\* the callback only when the time elapsed since the last tick or since play() is
\* at least playbackSpeed, and then the baseline is that frame's time; a frame
\* run with less time elapsed changes neither the index nor the baseline; a frame
\* never advances the index by more than one.
C33_FrameAdvancesOncePerInterval ==
    [][(\E id \in FrameIds : AnimationFrame(id)) /\ ~replay.isPaused =>
          /\ replay.sinceLastUpdate < replay.playbackSpeed =>
                /\ replay'.currentTickIndex = replay.currentTickIndex
                /\ replay'.sinceLastUpdate = replay.sinceLastUpdate
                /\ ticks' = <<>>
          /\ (replay.sinceLastUpdate >= replay.playbackSpeed
                 /\ replay.currentTickIndex < replay.dataLength - 1) =>
                /\ replay'.currentTickIndex = replay.currentTickIndex + 1
                /\ replay'.sinceLastUpdate = 0
                /\ ticks' = <<replay.currentTickIndex + 1>>
          /\ replay'.currentTickIndex \in
                {replay.currentTickIndex, replay.currentTickIndex + 1}
          /\ replay'.playbackSpeed = replay.playbackSpeed]_vars

\* A frame has advanced a clock of half-second interval to index 1
C33_Witness ==
    /\ last.op = "loop"
    /\ ~replay.isPaused
    /\ replay.playbackSpeed = 50
    /\ replay.currentTickIndex = 1
    /\ replay.sinceLastUpdate = 0
    /\ ticks = <<1>>


-----------------------------------------------------------------------------
(* Subscribers that close trades while update() runs *)

\* The engine in the middle of update(price): the first k trades of the open
\* trades update() iterates over have been evaluated, with every event delivered
UpdateAfter(price, k) ==
    updateEach([Engine EXCEPT !.currentPrice = price],
               SubSeq(openIndices(positions), 1, k))

\* What update() must not touch of a trade a subscriber closed
Settled(trade) ==
    [status |-> trade.status, unrealizedPnL |-> trade.unrealizedPnL,
     realizedPnL |-> trade.realizedPnL]

\* In the step, a trade update() had not yet evaluated was closed by a subscriber
\* and update() then changed it
UpdateChangesTradeClosedBySubscriber(price) ==
    \E k \in 1..Len(openIndices(positions)) :
        \E n \in (k + 1)..Len(openIndices(positions)) :
            LET i == openIndices(positions)[n]
            IN  /\ UpdateAfter(price, k).positions[i].status # "open"
                /\ Settled(positions'[i]) # Settled(UpdateAfter(price, k).positions[i])

\* update() never reopens or closes again a trade a subscriber closed: the exit
\* price, the realizedPnL and the balance stay as the subscriber's close left them
UpdateKeepsExitOfTradeClosedBySubscriber ==
    [][\A price \in UpdatePrices :
          Update(price) =>
              \A k \in 1..Len(openIndices(positions)) :
                  \A n \in (k + 1)..Len(openIndices(positions)) :
                      LET i == openIndices(positions)[n]
                          closed == UpdateAfter(price, k).positions[i]
                      IN  closed.status # "open" =>
                              /\ positions'[i].status # "open"
                              /\ positions'[i].exitPrice = closed.exitPrice
                              /\ positions'[i].realizedPnL = closed.realizedPnL]_vars

\* C35: when a subscriber that receives a TRADE_CLOSED event published from inside
\* update() closes another open trade, update() leaves that trade as the close
\* left it: same status, unrealizedPnL and realizedPnL at the end of update().
C35_UpdateSkipsTradeClosedBySubscriber ==
    [][\A price \in UpdatePrices :
          Update(price) => ~UpdateChangesTradeClosedBySubscriber(price)]_vars


-----------------------------------------------------------------------------
(* Trade ids *)

\* The trades since the last reset carry the ids 1, 2, ... in the order they were
\* created, and the counter is the last id given
IdsFollowCounter ==
    /\ tradeCounter = Len(positions)
    /\ \A i \in DOMAIN positions : positions[i].id = i

\* A placeOrder that returns null leaves the counter; one that returns a trade
\* returns the next id
PlaceOrderCountsSuccesses ==
    (last'.op = "placeOrder" /\ \E o \in OrderInputs :
                                   PlaceOrder(o[1], o[2], o[3], o[4], o[5])) =>
        IF last'.ret = Null
        THEN tradeCounter' = tradeCounter /\ positions' = positions
        ELSE /\ last'.ret = Ret("trade", tradeCounter + 1)
             /\ tradeCounter' = tradeCounter + 1
             /\ Len(positions') = Len(positions) + 1

\* C38: between two reset() calls the trade ids are pairwise distinct and given in
\* strictly increasing counter order; a rejected placeOrder consumes no id, so the
\* k-th successful order gets the k-th id.
C38_IdsAreDistinctAndIncreasing ==
    []IdsFollowCounter /\ [][PlaceOrderCountsSuccesses]_vars

\* The second order accepted since the last reset got the id 2, after the trade
\* with the id 1 was closed
C38_Witness ==
    /\ last = [op |-> "placeOrder", ret |-> Ret("trade", 2)]
    /\ Len(positions) = 2
    /\ positions[1].status # "open"
    /\ positions[2].id = 2


-----------------------------------------------------------------------------
(* Progress of the playing clock *)

PlayingBeforeLastSample ==
    ~replay.isPaused /\ replay.currentTickIndex < replay.dataLength - 1

\* The index was moved in the last step, or the clock is paused or at the last
\* sample
MovedOrStopped ==
    \/ ticks # <<>>
    \/ replay.isPaused
    \/ replay.currentTickIndex = replay.dataLength - 1

PlayingClockHasContinuation == PlayingBeforeLastSample => frames # {}

\* A clock that plays before the last sample with a frame pending does advance,
\* pause or get moved
PlayingClockWithFrameProgresses ==
    (PlayingBeforeLastSample /\ frames # {}) ~> MovedOrStopped

\* C36: a clock that is playing with index < N-1 always has a continuation
\* scheduled, whatever sequence of play, pause, seek, step, setData and playback
\* ticks led there, and, frames being run and time passing, its index eventually
\* advances or the clock becomes paused.
C36_PlayingClockProgresses ==
    /\ []PlayingClockHasContinuation
    /\ PlayingBeforeLastSample ~> MovedOrStopped


-----------------------------------------------------------------------------
(* Tick callbacks that call back into the controller *)

\* The only frame that can be pending is the one the controller holds the handle of
HandleIsOnlyPendingFrame == frames \subseteq {replay.animationFrameId}

\* C37: at every moment at most one playback continuation is scheduled, also when
\* the tick callback the playback loop invokes calls togglePlayPause() twice
\* (pause() and then play()) before it returns.
C37_AtMostOneContinuation == Cardinality(frames) <= 1


-----------------------------------------------------------------------------
(* Replacing the data *)

\* C34: setData(newData) without reset moves the index to newN-1, through seek
\* and so with one tick callback, when the index is beyond the new data, and
\* otherwise keeps it; the paused/playing state and the pending frame are kept.
\* setData(newData, reset) sets the index to 0 and the state to paused and cancels
\* the scheduled continuation: no frame is pending afterwards.
C34_SetDataClampsOrResets ==
    [][\A n \in DataLengths :
          /\ SetData(n, FALSE) =>
                /\ replay' = [replay EXCEPT
                                 !.dataLength = n,
                                 !.currentTickIndex = Min(@, n - 1)]
                /\ frames' = frames
                /\ ticks' = IF replay.currentTickIndex > n - 1 THEN <<n - 1>> ELSE <<>>
          /\ SetData(n, TRUE) =>
                /\ replay' = [replay EXCEPT
                                 !.dataLength = n,
                                 !.currentTickIndex = 0,
                                 !.isPaused = TRUE,
                                 !.animationFrameId = NoFrame]
                /\ frames' = {}]_vars

\* setData with a single sample, without reset, has moved a playing clock from a
\* later index to 0 through seek
C34_Witness ==
    /\ last.op = "setData"
    /\ replay.dataLength = 1
    /\ ~replay.isPaused
    /\ replay.currentTickIndex = 0
    /\ ticks = <<0>>
    /\ frames # {}

====
